---------------------------- MODULE Spec2Model ----------------------------
(***************************************************************************)
(* Model of the inst-death extraction-and-translation engine:              *)
(*   als_parser.py       parse_als, _parse_midi_track, _extract_macros,    *)
(*                       _extract_drum_pads                                *)
(*   hapax_generator.py  generate_instrument_def, generate_drum_def,       *)
(*                       _sanitize_name, split_pads_into_groups            *)
(*   app.py              generate, _make_safe_filename                     *)
(*                                                                         *)
(* A Python str is a sequence of one-character strings, so that strip,     *)
(* truncation, replace, startswith, int() and f-string formatting are      *)
(* computed and not assumed.  An XML element is a record                   *)
(*   [tag, attrs, kids]   attrs a set of <<key, value>> pairs,             *)
(*                        kids the ordered children.                       *)
(***************************************************************************)
EXTENDS Integers, Sequences, FiniteSets, TLC

VARIABLES
    pc,            \* position of the running operation
    midi_tracks,   \* parse_als: root.findall('.//Tracks/MidiTrack')
    track_pos,     \* parse_als: position of the for loop in midi_tracks
    tracks,        \* parse_als: the list of records built so far
    track_index,   \* parse_als: the next index to hand out
    instrument_rack, \* _extract_macros: its argument
    macros,        \* _extract_macros: its return value
    drum_rack,     \* _extract_drum_pads: its argument
    pads,          \* _extract_drum_pads / split_pads_into_groups: pad list
    group_size,    \* split_pads_into_groups: its second argument
    groups,        \* split_pads_into_groups: its return value
    name,          \* _sanitize_name: its argument
    sanitized,     \* _sanitize_name: its return value, and that of a 2nd call
    parsed_data,   \* app.py: parsed_data[filename]['tracks']
    selections,    \* generate: data['selections']
    sel_pos,       \* generate: position of the for loop in selections
    zip_file,      \* generate: the entries written so far, in order
    response       \* generate: what the request returns

vars == <<pc, midi_tracks, track_pos, tracks, track_index, instrument_rack,
          macros, drum_rack, pads, group_size, groups, name, sanitized,
          parsed_data, selections, sel_pos, zip_file, response>>

parseVars    == <<midi_tracks, track_pos, tracks, track_index>>
macroVars    == <<instrument_rack, macros>>
padVars      == <<drum_rack>>
splitVars    == <<group_size, groups>>
sanitizeVars == <<name, sanitized>>
genVars      == <<parsed_data, selections, sel_pos, zip_file, response>>

-----------------------------------------------------------------------------
(* Bounds of the explored inputs.                                          *)

MaxTracks     == 2   \* MidiTrack nodes in a document
MaxMacroNodes == 2   \* macro-name nodes (nested and shallow) in a rack
MaxBranches   == 3   \* DrumBranch nodes in a drum rack
MaxSplitPads  == 10  \* pads handed to split_pads_into_groups
MaxGroupSize  == 9   \* group_size handed to split_pads_into_groups
MaxRuns       == 3   \* runs of equal characters in a name to sanitize
MaxGenPads    == 10  \* pads of the drum track in a generate batch
MaxSelections == 2   \* selections in a generate batch

(* Program constants.                                                      *)
NumMacros        == 8    \* range(8), len(macros) < 8, macros[:8]
MaxNameLen       == 32   \* len(sanitized) > 32, sanitized[:32]
DefaultGroupSize == 8    \* group_size: int = 8
DefaultChannel   == 1    \* selection.get('midi_channel', 1)

-----------------------------------------------------------------------------
(* Python str and list helpers.                                            *)

Min(a, b) == IF a < b THEN a ELSE b

\* s[:n] for n >= 0
Take(s, n) == SubSeq(s, 1, Min(n, Len(s)))

\* s[i:j] for 0 <= i (0-based, j exclusive)
Slice(s, i, j) == SubSeq(s, i + 1, Min(j, Len(s)))

\* characters str.strip() removes
Whitespace == {" ", "\n", "\r", "\t"}

RECURSIVE LStrip(_)
LStrip(s) ==
    IF s # <<>> /\ Head(s) \in Whitespace THEN LStrip(Tail(s)) ELSE s

RECURSIVE RStrip(_)
RStrip(s) ==
    IF s # <<>> /\ s[Len(s)] \in Whitespace
    THEN RStrip(SubSeq(s, 1, Len(s) - 1)) ELSE s

\* str.strip()
Strip(s) == RStrip(LStrip(s))

\* str.replace(old, new) for a one-character old; new is a str
RECURSIVE Replace(_, _, _)
Replace(s, old, new) ==
    IF s = <<>> THEN <<>>
    ELSE (IF Head(s) = old THEN new ELSE <<Head(s)>>)
         \o Replace(Tail(s), old, new)

\* str.startswith(prefix)
StartsWith(s, prefix) ==
    Len(s) >= Len(prefix) /\ SubSeq(s, 1, Len(prefix)) = prefix

Digits == <<"0", "1", "2", "3", "4", "5", "6", "7", "8", "9">>

\* str(n) / f'{n}' for n >= 0
RECURSIVE IntToStr(_)
IntToStr(n) ==
    IF n < 10 THEN <<Digits[n + 1]>>
    ELSE IntToStr(n \div 10) \o <<Digits[(n % 10) + 1]>>

DigitValue(c) == (CHOOSE d \in 1..10 : Digits[d] = c) - 1

\* int(s) for a str of decimal digits
RECURSIVE StrToInt(_)
StrToInt(s) ==
    IF Len(s) = 1 THEN DigitValue(s[1])
    ELSE 10 * StrToInt(SubSeq(s, 1, Len(s) - 1)) + DigitValue(s[Len(s)])

\* "\n".join(lines)
RECURSIVE Join(_)
Join(lines) ==
    IF lines = <<>> THEN <<>>
    ELSE IF Len(lines) = 1 THEN lines[1]
    ELSE lines[1] \o <<"\n">> \o Join(Tail(lines))

RECURSIVE Concat(_)
Concat(ss) == IF ss = <<>> THEN <<>> ELSE Head(ss) \o Concat(Tail(ss))

-----------------------------------------------------------------------------
(* xml.etree.ElementTree, as far as the parser uses it.                    *)

Elem(tag, attrs, kids) == [tag |-> tag, attrs |-> attrs, kids |-> kids]

\* find() returning None
None == Elem("", {}, <<>>)

Value(v) == {<<"Value", v>>}

\* elem.get(key, default)
Get(e, key, default) ==
    IF \E a \in e.attrs : a[1] = key
    THEN (CHOOSE a \in e.attrs : a[1] = key)[2]
    ELSE default

HasAttr(e, key) == \E a \in e.attrs : a[1] = key

\* all elements below e, in document order: the './/' step
RECURSIVE Descendants(_), DescendantsOfAll(_)
DescendantsOfAll(es) ==
    IF es = <<>> THEN <<>>
    ELSE <<Head(es)>> \o Descendants(Head(es)) \o DescendantsOfAll(Tail(es))
Descendants(e) == DescendantsOfAll(e.kids)

WithTag(es, tag) == SelectSeq(es, LAMBDA x : x.tag = tag)

First(es) == IF es = <<>> THEN None ELSE Head(es)

\* e.findall('.//tag')
FindAll(e, tag) == WithTag(Descendants(e), tag)

\* e.find('.//tag')
Find(e, tag) == First(FindAll(e, tag))

\* e.findall('.//a/b'): the b children of every a below e
RECURSIVE ChildrenOfAll(_, _)
ChildrenOfAll(es, tag) ==
    IF es = <<>> THEN <<>>
    ELSE WithTag(Head(es).kids, tag) \o ChildrenOfAll(Tail(es), tag)
FindAllChild(e, a, b) == ChildrenOfAll(FindAll(e, a), b)

\* e.find('.//a/b')
FindChild(e, a, b) == First(FindAllChild(e, a, b))

\* e.find('.//a//b'): the first b below an a below e
RECURSIVE BelowAll(_, _)
BelowAll(es, tag) ==
    IF es = <<>> THEN <<>>
    ELSE FindAll(Head(es), tag) \o BelowAll(Tail(es), tag)
FindBelow(e, a, b) == First(BelowAll(FindAll(e, a), b))

-----------------------------------------------------------------------------
(* als_parser.py: _extract_macros                                          *)

MacroControlsTags ==
    <<"MacroControls.0", "MacroControls.1", "MacroControls.2",
      "MacroControls.3", "MacroControls.4", "MacroControls.5",
      "MacroControls.6", "MacroControls.7">>

MacroDisplayNamesTags ==
    <<"MacroDisplayNames.0", "MacroDisplayNames.1", "MacroDisplayNames.2",
      "MacroDisplayNames.3", "MacroDisplayNames.4", "MacroDisplayNames.5",
      "MacroDisplayNames.6", "MacroDisplayNames.7">>

\* f'MacroControls.{i}' and f'MacroDisplayNames.{i}', i in 0..7
MacroControlsTag(i)     == MacroControlsTags[i + 1]
MacroDisplayNamesTag(i) == MacroDisplayNamesTags[i + 1]

MacroPrefix == <<"M", "a", "c", "r", "o", " ">>

\* f'Macro {i + 1}'
Placeholder(i) == MacroPrefix \o IntToStr(i + 1)

\* the body of the first for loop: what slot i appends
FirstPassSlot(macro_controls, i) ==
    LET macro_elem == Find(macro_controls, MacroControlsTag(i))
        display    == Find(macro_elem, MacroDisplayNamesTag(i))
        custom_name == IF display = None
                       THEN Find(macro_elem, "CustomName") ELSE display
        name_elem  == Find(macro_elem, "Name")
    IN  IF macro_elem = None THEN Placeholder(i)
        ELSE IF custom_name # None /\ Get(custom_name, "Value", <<>>) # <<>>
        THEN Get(custom_name, "Value", <<>>)
        ELSE IF name_elem # None
        THEN Get(name_elem, "Value", Placeholder(i))
        ELSE Placeholder(i)

\* the list after the first loop: empty when there is no Macros node
FirstPass(rack) ==
    LET macro_controls == Find(rack, "Macros")
    IN  IF macro_controls = None THEN <<>>
        ELSE [k \in 1..NumMacros |-> FirstPassSlot(macro_controls, k - 1)]

\* not macros or all(m.startswith('Macro ') for m in macros)
NeedsSecondPass(ms) ==
    ms = <<>> \/ \A k \in 1..Len(ms) : StartsWith(ms[k], MacroPrefix)

\* one iteration of the second loop
SecondPassSlot(rack, ms, i) ==
    LET display_name == Find(rack, MacroDisplayNamesTag(i))
        nm           == Get(display_name, "Value", <<>>)
    IN  IF display_name # None /\ nm # <<>>
        THEN IF Len(ms) > i THEN [ms EXCEPT ![i + 1] = nm]
             ELSE Append(ms, nm)
        ELSE ms

\* the second loop, from slot i on
RECURSIVE SecondPass(_, _, _)
SecondPass(rack, ms, i) ==
    IF i >= NumMacros THEN ms
    ELSE SecondPass(rack, SecondPassSlot(rack, ms, i), i + 1)

\* while len(macros) < 8: macros.append(f'Macro {len(macros) + 1}')
RECURSIVE PadMacros(_)
PadMacros(ms) ==
    IF Len(ms) < NumMacros THEN PadMacros(Append(ms, Placeholder(Len(ms))))
    ELSE ms

\* the list before it is forced to length 8
CollectMacros(rack) ==
    LET first == FirstPass(rack)
    IN  IF NeedsSecondPass(first) THEN SecondPass(rack, first, 0) ELSE first

\* _extract_macros without its padding loop
Mutant_ExtractMacros_NoPad(rack) == Take(CollectMacros(rack), NumMacros)

ExtractMacros(rack) == Take(PadMacros(CollectMacros(rack)), NumMacros)

-----------------------------------------------------------------------------
(* als_parser.py: _extract_drum_pads                                       *)

Pad(note, nm) == [note |-> note, name |-> nm]

\* int(receiving_note.get('Value', 0)); the documents explored give Value
\* decimal digits only (int() of anything else raises ValueError)
NoteOf(receiving_note) ==
    IF HasAttr(receiving_note, "Value")
    THEN StrToInt(Get(receiving_note, "Value", <<>>))
    ELSE 0

\* the pad name of a branch: EffectiveName first, then UserName
PadName(branch) ==
    LET name_elem == Find(branch, "Name")
        effective == Find(name_elem, "EffectiveName")
        user_name == Find(name_elem, "UserName")
    IN  IF name_elem = None THEN <<>>
        ELSE IF effective # None THEN Get(effective, "Value", <<>>)
        ELSE IF user_name # None THEN Get(user_name, "Value", <<>>)
        ELSE <<>>

\* the body of the for loop: the pads one branch appends (none or one)
BranchPads(branch) ==
    LET receiving_note == Find(branch, "ReceivingNote")
    IN  IF receiving_note = None THEN <<>>
        ELSE IF PadName(branch) # <<>>
        THEN <<Pad(NoteOf(receiving_note), PadName(branch))>>
        ELSE <<>>

RECURSIVE CollectPads(_)
CollectPads(branches) ==
    IF branches = <<>> THEN <<>>
    ELSE BranchPads(Head(branches)) \o CollectPads(Tail(branches))

\* list.sort(key, reverse=True) is stable: equal keys keep their order
RECURSIVE InsertDesc(_, _)
InsertDesc(sorted, p) ==
    IF sorted = <<>> THEN <<p>>
    ELSE IF Head(sorted).note >= p.note
    THEN <<Head(sorted)>> \o InsertDesc(Tail(sorted), p)
    ELSE <<p>> \o sorted

RECURSIVE SortDescFrom(_, _)
SortDescFrom(sorted, rest) ==
    IF rest = <<>> THEN sorted
    ELSE SortDescFrom(InsertDesc(sorted, Head(rest)), Tail(rest))

\* _extract_drum_pads without its sort
Mutant_SortByNote_Unsorted(ps) == ps

\* pads.sort(key=lambda x: x['note'], reverse=True)
SortByNote(ps) == SortDescFrom(<<>>, ps)

ExtractDrumPads(rack) ==
    LET branches == Find(rack, "Branches")
    IN  IF branches = None THEN <<>>
        ELSE SortByNote(CollectPads(FindAll(branches, "DrumBranch")))

-----------------------------------------------------------------------------
(* als_parser.py: _parse_midi_track and parse_als                          *)

TrackPrefix == <<"T", "r", "a", "c", "k", " ">>

\* the record of a track, or NoRecord for `return None`
NoRecord == [index |-> 0]

TrackName(midi_track, index) ==
    LET effective == FindChild(midi_track, "Name", "EffectiveName")
        name_elem == IF effective = None
                     THEN FindChild(midi_track, "Name", "UserName")
                     ELSE effective
    IN  IF name_elem # None
        THEN Get(name_elem, "Value", TrackPrefix \o IntToStr(index))
        ELSE TrackPrefix \o IntToStr(index)

\* _parse_midi_track with the two rack checks in the other order
Mutant_ParseMidiTrack_InstrumentFirst(midi_track, index) ==
    LET drum == FindBelow(midi_track, "DeviceChain", "DrumGroupDevice")
        inst == FindBelow(midi_track, "DeviceChain", "InstrumentGroupDevice")
    IN  IF inst # None
        THEN [index |-> index, name |-> TrackName(midi_track, index),
              type |-> "instrument_rack", macros |-> ExtractMacros(inst)]
        ELSE IF drum # None
        THEN [index |-> index, name |-> TrackName(midi_track, index),
              type |-> "drum_rack", pads |-> ExtractDrumPads(drum)]
        ELSE NoRecord

ParseMidiTrack(midi_track, index) ==
    LET drum == FindBelow(midi_track, "DeviceChain", "DrumGroupDevice")
        inst == FindBelow(midi_track, "DeviceChain", "InstrumentGroupDevice")
    IN  IF drum # None
        THEN [index |-> index, name |-> TrackName(midi_track, index),
              type |-> "drum_rack", pads |-> ExtractDrumPads(drum)]
        ELSE IF inst # None
        THEN [index |-> index, name |-> TrackName(midi_track, index),
              type |-> "instrument_rack", macros |-> ExtractMacros(inst)]
        ELSE NoRecord

\* parse_als bumping track_index for every MidiTrack
Mutant_NextTrackIndex_Always(track_info, index) == index + 1

\* track_index after one iteration: bumped only `if track_info:`
NextTrackIndex(track_info, index) ==
    IF track_info # NoRecord THEN index + 1 ELSE index

-----------------------------------------------------------------------------
(* What the operations not running in a specification hold.                *)

IdleParse    == midi_tracks = <<>> /\ track_pos = 0 /\ tracks = <<>>
                /\ track_index = 1
IdleMacros   == instrument_rack = None /\ macros = <<>>
IdlePads     == drum_rack = None
IdleSplit    == group_size = DefaultGroupSize /\ groups = <<>>
IdleSanitize == name = <<>> /\ sanitized = <<>>
IdleGenerate == parsed_data = <<>> /\ selections = <<>> /\ sel_pos = 0
                /\ zip_file = <<>> /\ response = [status |-> 0, units |-> <<>>]

-----------------------------------------------------------------------------
(* Documents for parse_als: every sequence of at most MaxTracks tracks,    *)
(* each with one of the name shapes and one of the device-chain shapes.    *)

NameA == <<"L", "e", "a", "d">>
NameB == <<"U", "s", "r">>
Kick  == <<"K", "i", "c", "k">>

OwnName ==
    <<Elem("Name", {}, <<Elem("EffectiveName", Value(NameA), <<>>),
                         Elem("UserName", Value(NameB), <<>>)>>)>>

NameShapes ==
    { OwnName,
      <<Elem("Name", {}, <<Elem("UserName", Value(NameB), <<>>)>>)>>,
      <<Elem("Name", {}, <<Elem("EffectiveName", {}, <<>>)>>)>>,
      <<>> }

FixedBranches ==
    Elem("Branches", {},
         <<Elem("DrumBranch", {},
                <<Elem("Name", {}, <<Elem("EffectiveName", Value(Kick), <<>>)>>),
                  Elem("ReceivingNote", Value(<<"9", "2">>), <<>>)>>)>>)

FixedMacros ==
    Elem("Macros", {},
         <<Elem("MacroControls.0", {},
                <<Elem("CustomName", Value(<<"C", "u", "t">>), <<>>)>>)>>)

Drum(extra)       == Elem("DrumGroupDevice", {}, <<FixedBranches>> \o extra)
Instrument(extra) == Elem("InstrumentGroupDevice", {}, <<FixedMacros>> \o extra)
Chain(devices)    == Elem("DeviceChain", {}, <<Elem("Devices", {}, devices)>>)

DeviceShapes ==
    { <<Chain(<<Elem("Operator", {}, <<>>)>>)>>,
      <<Elem("Devices", {}, <<Drum(<<>>), Instrument(<<>>)>>)>>,
      <<Chain(<<Instrument(<<>>)>>)>>,
      <<Chain(<<Drum(<<>>)>>)>>,
      <<Chain(<<Instrument(<<Drum(<<>>)>>)>>)>>,
      <<Chain(<<Drum(<<Instrument(<<>>)>>)>>)>>,
      <<Chain(<<Instrument(<<>>), Drum(<<>>)>>)>>,
      <<Chain(<<Drum(<<>>), Instrument(<<>>)>>)>> }

\* every device shape under the track's own name, every name shape over
\* an instrument rack and over a chain without a rack, and an audio track
TrackShapes ==
    {Elem("MidiTrack", {}, OwnName \o d) : d \in DeviceShapes}
    \cup {Elem("MidiTrack", {}, n \o <<Chain(<<Instrument(<<>>)>>)>>) :
            n \in NameShapes}
    \cup {Elem("MidiTrack", {}, n \o <<Chain(<<Elem("Operator", {}, <<>>)>>)>>) :
            n \in NameShapes}
    \cup {Elem("AudioTrack", {}, <<Chain(<<Instrument(<<>>)>>)>>)}

Document(ts) ==
    Elem("Ableton", {}, <<Elem("LiveSet", {}, <<Elem("Tracks", {}, ts)>>)>>)

-----------------------------------------------------------------------------
(* parse_als, one action per iteration of its for loop.                    *)

InitParse ==
    /\ pc = "parse"
    /\ \E n \in 0..MaxTracks :
         \E ts \in [1..n -> TrackShapes] :
           midi_tracks = FindAllChild(Document(ts), "Tracks", "MidiTrack")
    /\ track_pos = 0
    /\ tracks = <<>>
    /\ track_index = 1
    /\ IdleMacros /\ IdlePads /\ pads = <<>> /\ IdleSplit /\ IdleSanitize
    /\ IdleGenerate

ParseTrack ==
    /\ pc = "parse"
    /\ track_pos < Len(midi_tracks)
    /\ LET track_info == ParseMidiTrack(midi_tracks[track_pos + 1], track_index)
       IN  /\ tracks' = IF track_info # NoRecord
                        THEN Append(tracks, track_info) ELSE tracks
           /\ track_index' = NextTrackIndex(track_info, track_index)
    /\ track_pos' = track_pos + 1
    /\ UNCHANGED <<pc, midi_tracks, macroVars, padVars, pads, splitVars,
                   sanitizeVars, genVars>>

ParseReturn ==
    /\ pc = "parse"
    /\ track_pos = Len(midi_tracks)
    /\ pc' = "done"
    /\ UNCHANGED <<parseVars, macroVars, padVars, pads, splitVars,
                   sanitizeVars, genVars>>

NextParse == ParseTrack \/ ParseReturn

SpecParse == InitParse /\ [][NextParse]_vars

\* a track that has a rack of either kind below a DeviceChain
HasBelowChain(t, tag) ==
    LET below == Descendants(t)
    IN  \E k \in 1..Len(below) :
            /\ below[k].tag = "DeviceChain"
            /\ LET inside == Descendants(below[k])
               IN  \E j \in 1..Len(inside) : inside[j].tag = tag

Classifiable(t) ==
    HasBelowChain(t, "DrumGroupDevice")
    \/ HasBelowChain(t, "InstrumentGroupDevice")

\* the classifiable tracks among those the loop has visited, in order
VisitedClassified == SelectSeq(SubSeq(midi_tracks, 1, track_pos), Classifiable)

\* C1: the records carry the indices 1, 2, ..., n in document order, n the
\* number of tracks that classified; an unclassified track consumes no
\* index, and the k-th record is that of the k-th classified track.
C1_DenseIndices ==
    pc \in {"parse", "done"} =>
        /\ Len(tracks) = Len(VisitedClassified)
        /\ track_index = Len(tracks) + 1
        /\ \A k \in 1..Len(tracks) :
               /\ tracks[k].index = k
               /\ tracks[k] = ParseMidiTrack(VisitedClassified[k], k)

\* an unclassified track lies before a classified one, and parsing is over
C1_Witness ==
    /\ pc = "done"
    /\ Len(midi_tracks) = 2
    /\ ~Classifiable(midi_tracks[1])
    /\ Classifiable(midi_tracks[2])
    /\ Len(tracks) = 1
    /\ tracks[1].index = 1

\* C2: a track with both a DrumGroupDevice and an InstrumentGroupDevice
\* below its DeviceChain yields a drum_rack record with 'pads' and without
\* 'macros'; every record is of exactly one kind with that kind's field.
C2_DrumPriority ==
    pc \in {"parse", "done"} /\ Len(tracks) = Len(VisitedClassified) =>
        \A k \in 1..Len(tracks) :
            /\ (HasBelowChain(VisitedClassified[k], "DrumGroupDevice")
                /\ HasBelowChain(VisitedClassified[k], "InstrumentGroupDevice"))
               => /\ tracks[k].type = "drum_rack"
                  /\ "pads" \in DOMAIN tracks[k]
                  /\ "macros" \notin DOMAIN tracks[k]
            /\ \/ /\ tracks[k].type = "drum_rack"
                  /\ DOMAIN tracks[k] = {"index", "name", "type", "pads"}
               \/ /\ tracks[k].type = "instrument_rack"
                  /\ DOMAIN tracks[k] = {"index", "name", "type", "macros"}

\* a drum rack nested in an instrument rack was parsed as a drum rack
C2_Witness ==
    /\ pc = "done"
    /\ Len(midi_tracks) >= 1
    /\ midi_tracks[1] =
         Elem("MidiTrack", {}, OwnName \o <<Chain(<<Instrument(<<Drum(<<>>)>>)>>)>>)
    /\ Len(tracks) >= 1
    /\ tracks[1].type = "drum_rack"
    /\ tracks[1].pads = <<Pad(92, Kick)>>

-----------------------------------------------------------------------------
(* Racks for _extract_macros: a Macros node or none, MacroControls.{i}     *)
(* nodes for some slots (each in one of the shapes below) and shallow      *)
(* MacroDisplayNames.{i} nodes directly under the rack, at most            *)
(* MaxMacroNodes of them in all.  A name says where it comes from:         *)
(* "N{i}" below MacroControls.{i}, "S{i}" in a shallow node of slot i.     *)

Slots == 0..(NumMacros - 1)

NestedName(i)  == <<"N">> \o IntToStr(i)
ShallowName(i) == <<"S">> \o IntToStr(i)

ControlShapeIds == 1..6
ControlShape(i, v) ==
    CASE v = 1 -> <<Elem(MacroDisplayNamesTag(i), Value(NestedName(i)), <<>>)>>
      [] v = 2 -> <<Elem("CustomName", Value(NestedName(i)), <<>>)>>
      [] v = 3 -> <<Elem(MacroDisplayNamesTag(i), Value(<<>>), <<>>),
                    Elem("Name", Value(NestedName(i)), <<>>)>>
      [] v = 4 -> <<Elem("Name", Value(<<>>), <<>>)>>
      [] v = 5 -> <<Elem("Name", {}, <<>>)>>
      [] OTHER -> <<>>

ShallowShapeIds == 1..2
ShallowShape(i, v) ==
    IF v = 1 THEN Elem(MacroDisplayNamesTag(i), Value(ShallowName(i)), <<>>)
    ELSE Elem(MacroDisplayNamesTag(i), Value(<<>>), <<>>)

\* the elements f[i], i in S, by ascending i
RECURSIVE InSlotOrder(_, _)
InSlotOrder(S, f) ==
    IF S = {} THEN <<>>
    ELSE LET i == CHOOSE x \in S : \A y \in S : x <= y
         IN  <<f[i]>> \o InSlotOrder(S \ {i}, f)

Rack(hasMacros, C, cs, Sh, ss) ==
    Elem("InstrumentGroupDevice", {},
         (IF hasMacros
          THEN <<Elem("Macros", {},
                      InSlotOrder(C, [i \in C |->
                          Elem(MacroControlsTag(i), {}, ControlShape(i, cs[i]))]))>>
          ELSE <<>>)
         \o InSlotOrder(Sh, [i \in Sh |-> ShallowShape(i, ss[i])]))

InitMacros ==
    /\ pc = "macros"
    /\ \E C \in {X \in SUBSET Slots : Cardinality(X) <= MaxMacroNodes} :
         \E Sh \in {X \in SUBSET Slots :
                      Cardinality(X) + Cardinality(C) <= MaxMacroNodes} :
           \E cs \in [C -> ControlShapeIds], ss \in [Sh -> ShallowShapeIds],
              hasMacros \in (IF C = {} THEN BOOLEAN ELSE {TRUE}) :
               instrument_rack = Rack(hasMacros, C, cs, Sh, ss)
    /\ macros = <<>>
    /\ IdleParse /\ IdlePads /\ pads = <<>> /\ IdleSplit /\ IdleSanitize
    /\ IdleGenerate

ExtractMacrosCall ==
    /\ pc = "macros"
    /\ macros' = ExtractMacros(instrument_rack)
    /\ pc' = "done"
    /\ UNCHANGED <<instrument_rack, parseVars, padVars, pads, splitVars,
                   sanitizeVars, genVars>>

NextMacros == ExtractMacrosCall

SpecMacros == InitMacros /\ [][NextMacros]_vars

\* C3: _extract_macros returns exactly 8 entries, whether the Macros node
\* is absent, holds fewer than 8 MacroControls.{i} nodes, or comes with
\* shallow MacroDisplayNames.{i} nodes.
C3_EightMacros == pc = "done" => Len(macros) = NumMacros

\* both passes ran: a Macros node with one control that resolves to a
\* placeholder, and a shallow display name
C3_Witness ==
    /\ pc = "done"
    /\ Find(instrument_rack, "Macros") # None
    /\ Len(Find(instrument_rack, "Macros").kids) = 1
    /\ \E i \in Slots : ShallowShape(i, 1) \in
           {instrument_rack.kids[k] : k \in 1..Len(instrument_rack.kids)}
    /\ \E i \in Slots : macros[i + 1] = ShallowName(i)
    /\ Len(macros) = NumMacros

\* the Value attributes of the elements e of es that have one
ValuesOf(es) ==
    {Get(es[k], "Value", <<>>) : k \in {j \in 1..Len(es) : HasAttr(es[j], "Value")}}

\* the names the document gives slot i: below a MacroControls.{i} node in a
\* MacroDisplayNames.{i}, CustomName or Name element, or in any
\* MacroDisplayNames.{i} element of the rack
SlotNames(rack, i) ==
    LET controls == FindAll(rack, MacroControlsTag(i))
    IN  ValuesOf(BelowAll(controls, MacroDisplayNamesTag(i)))
        \cup ValuesOf(BelowAll(controls, "CustomName"))
        \cup ValuesOf(BelowAll(controls, "Name"))
        \cup ValuesOf(FindAll(rack, MacroDisplayNamesTag(i)))

\* C10: entry i of the result is a non-empty name of slot i's own nodes or
\* the placeholder 'Macro {i+1}'; a name the second pass finds for slot i
\* lands at position i, also when there is no Macros node.
C10_SlotAligned ==
    pc = "done" =>
        \A i \in Slots :
            \/ macros[i + 1] = Placeholder(i)
            \/ /\ macros[i + 1] # <<>>
               /\ macros[i + 1] \in SlotNames(instrument_rack, i)

-----------------------------------------------------------------------------
(* Drum racks for _extract_drum_pads: no Branches node, or at most         *)
(* MaxBranches DrumBranch nodes, each with one shape of note id and one of *)
(* name.  The k-th branch is named "P{k}" (EffectiveName) or "U{k}"        *)
(* (UserName), so that a pad of the result names the branch it is from.    *)

EffName(k)  == <<"P">> \o IntToStr(k)
UserName(k) == <<"U">> \o IntToStr(k)

NoteShapes ==
    { <<>>,
      <<Elem("ReceivingNote", {}, <<>>)>>,
      <<Elem("ReceivingNote", Value(<<"3", "6">>), <<>>)>>,
      <<Elem("ReceivingNote", Value(<<"6", "0">>), <<>>)>>,
      <<Elem("ReceivingNote", Value(<<"9", "2">>), <<>>)>> }

PadNameShapeIds == 1..4
PadNameShape(k, v) ==
    CASE v = 1 -> <<Elem("Name", {},
                         <<Elem("EffectiveName", Value(EffName(k)), <<>>)>>)>>
      [] v = 2 -> <<Elem("Name", {},
                         <<Elem("EffectiveName", Value(<<>>), <<>>),
                           Elem("UserName", Value(UserName(k)), <<>>)>>)>>
      [] v = 3 -> <<Elem("Name", {},
                         <<Elem("UserName", Value(UserName(k)), <<>>)>>)>>
      [] OTHER -> <<>>

DrumRackOf(n, nm, nt) ==
    Elem("DrumGroupDevice", {},
         <<Elem("Branches", {},
                [k \in 1..n |->
                    Elem("DrumBranch", {}, PadNameShape(k, nm[k]) \o nt[k])])>>)

InitPads ==
    /\ pc = "pads"
    /\ \/ drum_rack = Elem("DrumGroupDevice", {}, <<>>)
       \/ \E n \in 0..MaxBranches :
            \E nm \in [1..n -> PadNameShapeIds], nt \in [1..n -> NoteShapes] :
                drum_rack = DrumRackOf(n, nm, nt)
    /\ pads = <<>>
    /\ IdleParse /\ IdleMacros /\ IdleSplit /\ IdleSanitize /\ IdleGenerate

ExtractDrumPadsCall ==
    /\ pc = "pads"
    /\ pads' = ExtractDrumPads(drum_rack)
    /\ pc' = "done"
    /\ UNCHANGED <<drum_rack, parseVars, macroVars, splitVars, sanitizeVars,
                   genVars>>

NextPads == ExtractDrumPadsCall

SpecPads == InitPads /\ [][NextPads]_vars

\* C4: no returned pad has an empty name, and the notes of the returned
\* sequence never increase (internal notes 60, 36, 92 come out 92, 60, 36).
C4_NamedAndDescending ==
    pc = "done" =>
        /\ \A k \in 1..Len(pads) : pads[k].name # <<>>
        /\ \A k \in 1..(Len(pads) - 1) : pads[k].note >= pads[k + 1].note

\* the branches of the rack, in document order
BranchesOf(rack) == FindAll(rack, "DrumBranch")

BranchNote(b) == Get(Find(b, "ReceivingNote"), "Value", <<>>)

\* branches with notes 60, 36, 92 came out as 92, 60, 36
C4_Witness ==
    /\ pc = "done"
    /\ Len(BranchesOf(drum_rack)) = 3
    /\ [k \in 1..3 |-> BranchNote(BranchesOf(drum_rack)[k])]
         = << <<"6", "0">>, <<"3", "6">>, <<"9", "2">> >>
    /\ [k \in 1..Len(pads) |-> pads[k].note] = <<92, 60, 36>>

\* a branch that has a note id: a ReceivingNote element with a Value
HasNoteId(b) ==
    /\ Find(b, "ReceivingNote") # None
    /\ HasAttr(Find(b, "ReceivingNote"), "Value")

\* C9: a DrumBranch without a note id (no ReceivingNote element, or one
\* without a Value attribute) never appears in the result.
C9_NoNoteIdSkipped ==
    pc = "done" =>
        \A k \in 1..Len(BranchesOf(drum_rack)) :
            ~HasNoteId(BranchesOf(drum_rack)[k]) =>
                \A j \in 1..Len(pads) :
                    pads[j].name \notin {EffName(k), UserName(k)}

-----------------------------------------------------------------------------
(* hapax_generator.py: split_pads_into_groups                              *)

\* list(range(0, n, step)) from i on, step >= 1
RECURSIVE Range(_, _, _)
Range(i, n, step) ==
    IF i >= n THEN <<>> ELSE <<i>> \o Range(i + step, n, step)

\* split_pads_into_groups looping len(pads) // group_size times: the last,
\* shorter group is lost
Mutant_SplitPadsIntoGroups_FullOnly(ps, size) ==
    [k \in 1..(Len(ps) \div size) |->
        Slice(ps, (k - 1) * size, (k - 1) * size + size)]

SplitPadsIntoGroups(ps, size) ==
    IF ps = <<>> THEN <<>>
    ELSE LET starts == Range(0, Len(ps), size)
         IN  [k \in 1..Len(starts) |-> Slice(ps, starts[k], starts[k] + size)]

\* n named pads in the order the parser returns them (notes descending)
NamedPads(n) == [k \in 1..n |-> Pad(100 - k, EffName(k))]

InitSplit ==
    /\ pc = "split"
    /\ \E n \in 0..MaxSplitPads : pads = NamedPads(n)
    /\ group_size \in 1..MaxGroupSize
    /\ groups = <<>>
    /\ IdleParse /\ IdleMacros /\ IdlePads /\ IdleSanitize /\ IdleGenerate

SplitCall ==
    /\ pc = "split"
    /\ groups' = SplitPadsIntoGroups(pads, group_size)
    /\ pc' = "done"
    /\ UNCHANGED <<pads, group_size, parseVars, macroVars, padVars,
                   sanitizeVars, genVars>>

NextSplit == SplitCall

SpecSplit == InitSplit /\ [][NextSplit]_vars

\* C5: the groups, concatenated in order, are the input; every group is
\* non-empty and holds at most group_size pads, every group but the last
\* exactly group_size; an empty input yields no group.
C5_TotalPartition ==
    pc = "done" =>
        /\ Concat(groups) = pads
        /\ \A k \in 1..Len(groups) :
               /\ Len(groups[k]) >= 1
               /\ Len(groups[k]) <= group_size
               /\ k < Len(groups) => Len(groups[k]) = group_size
        /\ pads = <<>> => groups = <<>>

\* 10 pads in groups of 8 came out as groups of 8 and 2
C5_Witness ==
    /\ pc = "done"
    /\ Len(pads) = 10
    /\ group_size = DefaultGroupSize
    /\ [k \in 1..Len(groups) |-> Len(groups[k])] = <<8, 2>>

-----------------------------------------------------------------------------
(* hapax_generator.py: _sanitize_name                                      *)

\* _sanitize_name stripping before it truncates
Mutant_SanitizeName_StripFirst(nm) ==
    LET replaced == Strip(Replace(Replace(nm, "\n", <<" ">>), "\r", <<>>))
    IN  IF Len(replaced) > MaxNameLen THEN Take(replaced, MaxNameLen)
        ELSE replaced

SanitizeName(nm) ==
    LET replaced  == Replace(Replace(nm, "\n", <<" ">>), "\r", <<>>)
        truncated == IF Len(replaced) > MaxNameLen
                     THEN Take(replaced, MaxNameLen) ELSE replaced
    IN  Strip(truncated)

\* Names to sanitize: at most MaxRuns runs of one character each, of a
\* length around 1 and around the display limit.
RunChars == {"a", " ", "\n", "\r"}
RunLens  == {1, 2, MaxNameLen - 1, MaxNameLen + 1}

Run(c, n) == [k \in 1..n |-> c]

InitSanitize ==
    /\ pc = "sanitize"
    /\ \E n \in 0..MaxRuns :
         \E r \in [1..n -> RunChars \X RunLens] :
           name = Concat([k \in 1..n |-> Run(r[k][1], r[k][2])])
    /\ sanitized = <<>>
    /\ IdleParse /\ IdleMacros /\ IdlePads /\ pads = <<>> /\ IdleSplit
    /\ IdleGenerate

\* _sanitize_name called on the name, then on its own result
SanitizeCall ==
    /\ pc = "sanitize"
    /\ Len(sanitized) < 2
    /\ sanitized' = Append(sanitized,
           SanitizeName(IF sanitized = <<>> THEN name
                        ELSE sanitized[Len(sanitized)]))
    /\ UNCHANGED <<pc, name, parseVars, macroVars, padVars, pads, splitVars,
                   genVars>>

NextSanitize == SanitizeCall

SpecSanitize == InitSanitize /\ [][NextSanitize]_vars

\* C6: sanitize(sanitize(x)) = sanitize(x) and len(sanitize(x)) <= 32.
C6_IdempotentBounded ==
    /\ \A k \in 1..Len(sanitized) : Len(sanitized[k]) <= MaxNameLen
    /\ Len(sanitized) = 2 => sanitized[2] = sanitized[1]

\* a name longer than 32 with a newline, a carriage return and leading
\* whitespace was sanitized twice, and sanitizing changed it
C6_Witness ==
    /\ Len(sanitized) = 2
    /\ Len(name) > MaxNameLen
    /\ name[1] \in Whitespace
    /\ \E k \in 1..Len(name) : name[k] = "\n"
    /\ \E k \in 1..Len(name) : name[k] = "\r"
    /\ sanitized[1] # name
    /\ sanitized[1] # <<>>

-----------------------------------------------------------------------------
(* hapax_generator.py: generate_instrument_def, generate_drum_def          *)

\* f"{i} {sanitized}" for each of macros[:8], i from 1
CCLines(ms) ==
    [i \in 1..Len(Take(ms, NumMacros)) |->
        IntToStr(i) \o <<" ">> \o SanitizeName(ms[i])]

\* f"{i} CC:{i}" for i in range(1, min(len(macros) + 1, 9))
AssignLines(ms) ==
    [i \in 1..(Min(Len(ms) + 1, NumMacros + 1) - 1) |->
        IntToStr(i) \o <<" ", "C", "C", ":">> \o IntToStr(i)]

GenerateInstrumentDef(track, midi_channel) ==
    Join(<< <<"V", "E", "R", "S", "I", "O", "N", " ", "1">>,
            <<"T", "R", "A", "C", "K", "N", "A", "M", "E", " ">> \o SanitizeName(track.name),
            <<"T", "Y", "P", "E", " ", "P", "O", "L", "Y">>,
            <<"O", "U", "T", "P", "O", "R", "T", " ", "U", "S", "B", "D">>,
            <<"O", "U", "T", "C", "H", "A", "N", " ">> \o IntToStr(midi_channel),
            <<>>,
            <<"[", "C", "C", "]">> >>
         \o CCLines(track.macros)
         \o << <<"[", "/", "C", "C", "]">>, <<>>, <<"[", "A", "S", "S", "I", "G", "N", "]">> >>
         \o AssignLines(track.macros)
         \o << <<"[", "/", "A", "S", "S", "I", "G", "N", "]">> >>)

\* generate_drum_def enumerating from 0 (start=1 left out)
Mutant_DrumLanes_FromZero(ps) ==
    [i \in 1..Len(ps) |->
        IntToStr(i - 1) \o <<":", "N", "U", "L", "L", ":", "N", "U", "L", "L", ":">> \o IntToStr(ps[i].note) \o <<" ">>
        \o SanitizeName(ps[i].name)]

\* f"{i}:NULL:NULL:{note} {name}" for i, pad in enumerate(pads, start=1)
DrumLanes(ps) ==
    [i \in 1..Len(ps) |->
        IntToStr(i) \o <<":", "N", "U", "L", "L", ":", "N", "U", "L", "L", ":">> \o IntToStr(ps[i].note) \o <<" ">>
        \o SanitizeName(ps[i].name)]

\* part_number is <<>> for None and <<n>> for the number n
GenerateDrumDef(track, midi_channel, ps, part_number) ==
    Join(<< <<"V", "E", "R", "S", "I", "O", "N", " ", "1">>,
            <<"T", "R", "A", "C", "K", "N", "A", "M", "E", " ">> \o SanitizeName(track.name)
                \o (IF part_number # <<>>
                    THEN <<"_", "p">> \o IntToStr(part_number[1]) ELSE <<>>),
            <<"T", "Y", "P", "E", " ", "D", "R", "U", "M">>,
            <<"O", "U", "T", "P", "O", "R", "T", " ", "U", "S", "B", "D">>,
            <<"O", "U", "T", "C", "H", "A", "N", " ">> \o IntToStr(midi_channel),
            <<>>,
            <<"[", "D", "R", "U", "M", "L", "A", "N", "E", "S", "]">> >>
         \o DrumLanes(ps)
         \o << <<"[", "/", "D", "R", "U", "M", "L", "A", "N", "E", "S", "]">> >>)

-----------------------------------------------------------------------------
(* app.py: _make_safe_filename and generate                                *)

UnsafeChars == {"/", "\\", ":", "*", "?", "\"", "<", ">", "|"}

MakeSafeFilename(nm) ==
    Strip([k \in 1..Len(nm) |-> IF nm[k] \in UnsafeChars THEN "-" ELSE nm[k]])

Entry(filename, content) == [filename |-> filename, content |-> content]

\* tracks_by_index = {t['index']: t for t in ...}: the last track wins
HasTrack(index) == \E k \in 1..Len(parsed_data) : parsed_data[k].index = index
TrackByIndex(index) ==
    parsed_data[CHOOSE k \in 1..Len(parsed_data) :
                    /\ parsed_data[k].index = index
                    /\ \A j \in (k + 1)..Len(parsed_data) :
                           parsed_data[j].index # index]

\* selection.get('midi_channel', 1); the field is <<>> when absent
ChannelOf(selection) ==
    IF selection.midi_channel = <<>> THEN DefaultChannel
    ELSE selection.midi_channel[1]

\* part_number=i if len(groups) > 1 else None
AutoPartNumber(i, ngroups) == IF ngroups > 1 THEN <<i>> ELSE <<>>

\* the entries the default branch writes: all pads in groups of 8
AutoSplitEntries(track, midi_channel) ==
    LET gs == SplitPadsIntoGroups(track.pads, DefaultGroupSize)
    IN  [i \in 1..Len(gs) |->
            Entry(MakeSafeFilename(track.name)
                    \o (IF Len(gs) > 1 THEN <<"_", "p", "a", "r", "t">> \o IntToStr(i) ELSE <<>>)
                    \o <<".", "t", "x", "t">>,
                  GenerateDrumDef(track, midi_channel, gs[i],
                                  AutoPartNumber(i, Len(gs))))]

\* all_pads[i] raises IndexError: i passed the filter i < len(all_pads)
\* and lies below -len(all_pads)
IndexRaises(all_pads, i) == i < Len(all_pads) /\ i < 0 - Len(all_pads)

GroupRaises(all_pads, pad_indices) ==
    \E k \in 1..Len(pad_indices) : IndexRaises(all_pads, pad_indices[k])

\* all_pads[i] of a Python list, a negative i counting from the end
PyIndex(all_pads, i) ==
    IF i >= 0 THEN all_pads[i + 1] ELSE all_pads[Len(all_pads) + i + 1]

\* [all_pads[i] for i in pad_indices if i < len(all_pads)], when no index
\* raises
SelectedPads(all_pads, pad_indices) ==
    LET kept == SelectSeq(pad_indices, LAMBDA i : i < Len(all_pads))
    IN  [k \in 1..Len(kept) |-> PyIndex(all_pads, kept[k])]

\* the entries one group_info writes: none when no pad was selected
GroupEntries(track, midi_channel, group_info) ==
    LET group_channel == IF group_info.midi_channel = <<>> THEN midi_channel
                         ELSE group_info.midi_channel[1]
        selected_pads == SelectedPads(track.pads, group_info.pad_indices)
        part_number   == group_info.part_number
    IN  IF selected_pads = <<>> THEN <<>>
        ELSE <<Entry(MakeSafeFilename(track.name)
                       \o (IF part_number # <<>> /\ part_number[1] # 0
                           THEN <<"_", "p", "a", "r", "t">> \o IntToStr(part_number[1])
                           ELSE <<>>)
                       \o <<".", "t", "x", "t">>,
                     GenerateDrumDef(track, group_channel, selected_pads,
                                     part_number))>>

\* the for loop over pad_groups: the entries written, and whether an
\* IndexError ended it
RECURSIVE WriteGroups(_, _, _, _)
WriteGroups(track, midi_channel, pad_groups, written) ==
    IF pad_groups = <<>> THEN [entries |-> written, raised |-> FALSE]
    ELSE IF GroupRaises(track.pads, Head(pad_groups).pad_indices)
    THEN [entries |-> written, raised |-> TRUE]
    ELSE WriteGroups(track, midi_channel, Tail(pad_groups),
                     written \o GroupEntries(track, midi_channel,
                                             Head(pad_groups)))

-----------------------------------------------------------------------------
(* A generate request over an uploaded file: the extracted tracks are a    *)
(* drum track with at most MaxGenPads named pads, alone or after an        *)
(* instrument track; the batch holds at most MaxSelections selections.     *)

DrumTrackName == <<"K", ":", "1">>
LeadTrackName == <<"1", "-", "L", "e", "a", "d">>

DrumRecord(index, n) ==
    [index |-> index, name |-> DrumTrackName, type |-> "drum_rack",
     pads |-> NamedPads(n)]

LeadRecord(index) ==
    [index |-> index, name |-> LeadTrackName, type |-> "instrument_rack",
     macros |-> PadMacros(<< <<"C", "u", "t", "o", "f", "f">>, <<"R", "e", "s", "o">> >>)]

ParsedFiles ==
    {<<DrumRecord(1, n)>> : n \in 0..MaxGenPads}
    \cup {<<LeadRecord(1), DrumRecord(2, MaxGenPads)>>}

Group(pad_indices, part_number, midi_channel) ==
    [pad_indices |-> pad_indices, part_number |-> part_number,
     midi_channel |-> midi_channel]

\* pad_groups of a selection: none (auto-split), or groups whose indices
\* are in range, beyond the end (99), negative in range (-1) or negative
\* beyond the start (-99)
PadGroupLists ==
    { <<>>,
      <<Group(<<0>>, <<>>, <<>>)>>,
      <<Group(<<1, 0>>, <<2>>, <<10>>)>>,
      <<Group(<<0, 99>>, <<>>, <<>>)>>,
      <<Group(<<0 - 1>>, <<>>, <<>>)>>,
      <<Group(<<0 - 99>>, <<>>, <<>>)>>,
      <<Group(<<99>>, <<>>, <<>>), Group(<<0>>, <<1>>, <<>>)>> }

Sel(index, midi_channel, pad_groups) ==
    [track_index |-> index, midi_channel |-> midi_channel,
     pad_groups |-> pad_groups]

\* every pad-group list on track 1, some on track 2, and a track index (3)
\* that no file has
Selections ==
    {Sel(1, <<>>, g) : g \in PadGroupLists}
    \cup {Sel(1, <<3>>, <<>>)}
    \cup {Sel(2, <<>>, <<>>),
          Sel(2, <<>>, <<Group(<<0>>, <<>>, <<>>)>>),
          Sel(2, <<>>, <<Group(<<0, 99>>, <<>>, <<>>)>>),
          Sel(3, <<>>, <<>>)}

InitGenerate ==
    /\ pc = "request"
    /\ parsed_data \in ParsedFiles
    /\ \E n \in 0..MaxSelections : selections \in [1..n -> Selections]
    /\ sel_pos = 0
    /\ zip_file = <<>>
    /\ response = [status |-> 0, units |-> <<>>]
    /\ IdleParse /\ IdleMacros /\ IdlePads /\ pads = <<>> /\ IdleSplit
    /\ IdleSanitize

genRest == <<parseVars, macroVars, padVars, pads, splitVars, sanitizeVars>>

\* if not selections: return 400
GenerateReject ==
    /\ pc = "request"
    /\ selections = <<>>
    /\ response' = [status |-> 400, units |-> <<>>]
    /\ pc' = "done"
    /\ UNCHANGED <<parsed_data, selections, sel_pos, zip_file, genRest>>

GenerateStart ==
    /\ pc = "request"
    /\ selections # <<>>
    /\ pc' = "loop"
    /\ UNCHANGED <<parsed_data, selections, sel_pos, zip_file, response,
                   genRest>>

Selection == selections[sel_pos + 1]

InLoop == pc = "loop" /\ sel_pos < Len(selections)

\* if track_index not in tracks_by_index: continue
GenerateSkip ==
    /\ InLoop
    /\ ~HasTrack(Selection.track_index)
    /\ sel_pos' = sel_pos + 1
    /\ UNCHANGED <<pc, parsed_data, selections, zip_file, response, genRest>>

GenerateInstrument ==
    /\ InLoop
    /\ HasTrack(Selection.track_index)
    /\ LET track == TrackByIndex(Selection.track_index)
       IN  /\ track.type = "instrument_rack"
           /\ zip_file' = Append(zip_file,
                  Entry(MakeSafeFilename(track.name) \o <<".", "t", "x", "t">>,
                        GenerateInstrumentDef(track, ChannelOf(Selection))))
    /\ sel_pos' = sel_pos + 1
    /\ UNCHANGED <<pc, parsed_data, selections, response, genRest>>

\* if not pad_groups: split all pads into groups of 8
GenerateDrumAuto ==
    /\ InLoop
    /\ HasTrack(Selection.track_index)
    /\ LET track == TrackByIndex(Selection.track_index)
       IN  /\ track.type = "drum_rack"
           /\ Selection.pad_groups = <<>>
           /\ zip_file' = zip_file
                  \o AutoSplitEntries(track, ChannelOf(Selection))
    /\ sel_pos' = sel_pos + 1
    /\ UNCHANGED <<pc, parsed_data, selections, response, genRest>>

\* the specified pad groups, no index raising
GenerateDrumGroups ==
    /\ InLoop
    /\ HasTrack(Selection.track_index)
    /\ LET track == TrackByIndex(Selection.track_index)
           out   == WriteGroups(track, ChannelOf(Selection),
                                Selection.pad_groups, <<>>)
       IN  /\ track.type = "drum_rack"
           /\ Selection.pad_groups # <<>>
           /\ ~out.raised
           /\ zip_file' = zip_file \o out.entries
    /\ sel_pos' = sel_pos + 1
    /\ UNCHANGED <<pc, parsed_data, selections, response, genRest>>

\* an IndexError leaves generate: the request fails and no archive is sent
GenerateRaise ==
    /\ InLoop
    /\ HasTrack(Selection.track_index)
    /\ LET track == TrackByIndex(Selection.track_index)
           out   == WriteGroups(track, ChannelOf(Selection),
                                Selection.pad_groups, <<>>)
       IN  /\ track.type = "drum_rack"
           /\ Selection.pad_groups # <<>>
           /\ out.raised
           /\ zip_file' = zip_file \o out.entries
    /\ response' = [status |-> 500, units |-> <<>>]
    /\ pc' = "error"
    /\ UNCHANGED <<parsed_data, selections, sel_pos, genRest>>

\* return send_file(zip_buffer, ...)
GenerateSend ==
    /\ pc = "loop"
    /\ sel_pos = Len(selections)
    /\ response' = [status |-> 200, units |-> zip_file]
    /\ pc' = "done"
    /\ UNCHANGED <<parsed_data, selections, sel_pos, zip_file, genRest>>

NextGenerate ==
    \/ GenerateReject
    \/ GenerateStart
    \/ GenerateSkip
    \/ GenerateInstrument
    \/ GenerateDrumAuto
    \/ GenerateDrumGroups
    \/ GenerateRaise
    \/ GenerateSend

SpecGenerate == InitGenerate /\ [][NextGenerate]_vars

-----------------------------------------------------------------------------
(* Reading a definition text back.                                         *)

\* the text before the first occurrence of character c (all of it if none)
RECURSIVE Before(_, _)
Before(text, c) ==
    IF text = <<>> \/ Head(text) = c THEN <<>>
    ELSE <<Head(text)>> \o Before(Tail(text), c)

\* text.split('\n')
RECURSIVE SplitLines(_)
SplitLines(text) ==
    LET line == Before(text, "\n")
    IN  IF Len(line) = Len(text) THEN <<line>>
        ELSE <<line>> \o SplitLines(SubSeq(text, Len(line) + 2, Len(text)))

\* the lines between [DRUMLANES] and [/DRUMLANES]
LaneLines(content) ==
    LET lines == SplitLines(content)
        open  == CHOOSE k \in 1..Len(lines) : lines[k] = <<"[", "D", "R", "U", "M", "L", "A", "N", "E", "S", "]">>
        close == CHOOSE k \in 1..Len(lines) : lines[k] = <<"[", "/", "D", "R", "U", "M", "L", "A", "N", "E", "S", "]">>
    IN  SubSeq(lines, open + 1, close - 1)

\* the lane numbers of a drum definition, in order
LaneNumbers(content) ==
    [k \in 1..Len(LaneLines(content)) |->
        StrToInt(Before(LaneLines(content)[k], ":"))]

\* the TRACKNAME line of a definition
TrackNameLine(content) == SplitLines(content)[2]

\* the entries the step under way has added to the archive
NewEntries == SubSeq(zip_file', Len(zip_file) + 1, Len(zip_file'))

\* C7: auto-splitting a drum track with n named pads writes ceil(n/8)
\* definition units; with more than one unit, unit k has TRACKNAME
\* suffixed '_p{k}'; in every unit the lanes are numbered 1, 2, ..., size
\* of the unit.
C7_AutoSplitStep ==
    (/\ InLoop
     /\ HasTrack(Selection.track_index)
     /\ TrackByIndex(Selection.track_index).type = "drum_rack"
     /\ Selection.pad_groups = <<>>)
    => LET track == TrackByIndex(Selection.track_index)
           n     == Len(track.pads)
       IN  /\ Len(NewEntries) = (n + DefaultGroupSize - 1) \div DefaultGroupSize
           /\ \A k \in 1..Len(NewEntries) :
                /\ Len(NewEntries) > 1 =>
                     TrackNameLine(NewEntries[k].content)
                       = <<"T", "R", "A", "C", "K", "N", "A", "M", "E", " ">> \o track.name \o <<"_", "p">> \o IntToStr(k)
                /\ LaneNumbers(NewEntries[k].content)
                     = [i \in 1..Min(DefaultGroupSize,
                                     n - DefaultGroupSize * (k - 1)) |-> i]

C7_AutoSplit == [][C7_AutoSplitStep]_vars

\* a drum track with 10 pads was auto-split into _p1 with lanes 1..8 and
\* _p2 with lanes 1, 2
C7_Witness ==
    /\ pc = "done"
    /\ Len(selections) = 1
    /\ selections[1].pad_groups = <<>>
    /\ HasTrack(selections[1].track_index)
    /\ TrackByIndex(selections[1].track_index).type = "drum_rack"
    /\ Len(TrackByIndex(selections[1].track_index).pads) = 10
    /\ response.status = 200
    /\ Len(response.units) = 2
    /\ TrackNameLine(response.units[1].content) = <<"T", "R", "A", "C", "K", "N", "A", "M", "E", " ", "K", ":", "1", "_", "p", "1">>
    /\ TrackNameLine(response.units[2].content) = <<"T", "R", "A", "C", "K", "N", "A", "M", "E", " ", "K", ":", "1", "_", "p", "2">>
    /\ LaneNumbers(response.units[1].content) = <<1, 2, 3, 4, 5, 6, 7, 8>>
    /\ LaneNumbers(response.units[2].content) = <<1, 2>>

\* a pad index the track's pad list has
InRange(track, i) == 0 <= i /\ i < Len(track.pads)

\* the number of units a selection asks for validly: none for a track
\* index that was not extracted, none for a pad group with an index out
\* of range (or with no index)
ValidUnits(selection) ==
    IF ~HasTrack(selection.track_index) THEN 0
    ELSE LET track == TrackByIndex(selection.track_index)
         IN  IF track.type = "instrument_rack" THEN 1
             ELSE IF selection.pad_groups = <<>>
             THEN Len(SplitPadsIntoGroups(track.pads, DefaultGroupSize))
             ELSE Len(SelectSeq(selection.pad_groups,
                      LAMBDA g : /\ g.pad_indices # <<>>
                                 /\ \A k \in 1..Len(g.pad_indices) :
                                        InRange(track, g.pad_indices[k])))

RECURSIVE Sum(_)
Sum(ns) == IF ns = <<>> THEN 0 ELSE Head(ns) + Sum(Tail(ns))

\* C8: a request for a track index that was not extracted, or a pad group
\* with a pad index out of range (a negative one included), writes no
\* unit, and every valid unit of the batch is still produced.
C8_SkipAndContinue ==
    (pc \in {"done", "error"} /\ selections # <<>>) =>
        /\ response.status = 200
        /\ Len(response.units)
             = Sum([k \in 1..Len(selections) |-> ValidUnits(selections[k])])

=============================================================================
